---- MODULE Spec2Model ----
(***************************************************************************)
(* Model of util/oteltest/src/oteltest/__init__.py: the Request dataclass  *)
(* and the Telemetry accumulator (three lists of Requests and the queries  *)
(* over them).                                                             *)
(*                                                                         *)
(* Python values that reach the code (messages, headers, header values)    *)
(* are modelled as tagged records of one shape, so that the dynamic        *)
(* behaviour of subscripting, iteration and len() on a value of the wrong  *)
(* type is part of the model:                                              *)
(*   t  : "dict" | "list" | "str" | "int" | "bool" | "set" | "none"        *)
(*   ks : the keys of a dict, or the characters of a str                   *)
(*   vs : the values of a dict (parallel to ks), or the items of a list    *)
(*   n  : the number of an int, 1 or 0 for the bool True or False          *)
(***************************************************************************)
EXTENDS Integers, Sequences, FiniteSets, TLC

----------------------------------------------------------------------------
(* Python values *)

PyNone == [t |-> "none", ks |-> <<>>, vs |-> <<>>, n |-> 0]

PyInt(i) == [t |-> "int", ks |-> <<>>, vs |-> <<>>, n |-> i]

PyBool(b) == [t |-> "bool", ks |-> <<>>, vs |-> <<>>, n |-> IF b THEN 1 ELSE 0]

(* a set object; its elements are kept beside it, see Returned *)
PySet == [t |-> "set", ks |-> <<>>, vs |-> <<>>, n |-> 0]

PyStr(chars) == [t |-> "str", ks |-> chars, vs |-> <<>>, n |-> 0]

PyList(items) == [t |-> "list", ks |-> <<>>, vs |-> items, n |-> 0]

PyDict(keys, vals) == [t |-> "dict", ks |-> keys, vs |-> vals, n |-> 0]

(* The outcome of evaluating a Python expression: a value, or an exception *)
(* that propagates (exc is "" when there is none).                         *)
Ok(v) == [exc |-> "", val |-> v]

Raise(e) == [exc |-> e, val |-> PyNone]

HasKey(d, k) == d.t = "dict" /\ \E i \in 1..Len(d.ks) : d.ks[i] = k

Field(d, k) == d.vs[CHOOSE i \in 1..Len(d.ks) : d.ks[i] = k]

(* v[k] for a str key k: a dict looks the key up (KeyError when absent);   *)
(* a list or str accepts only integer indices, an int or None is not       *)
(* subscriptable (TypeError).                                              *)
PyGetItem(v, k) ==
  IF v.t = "dict"
    THEN IF HasKey(v, k) THEN Ok(Field(v, k)) ELSE Raise("KeyError")
    ELSE Raise("TypeError")

(* The items a for loop over v visits: the items of a list, the keys of a  *)
(* dict, the characters of a str; an int or None is not iterable.          *)
PyIter(v) ==
  CASE v.t = "list" -> Ok(v.vs)
    [] v.t \in {"dict", "str"} -> Ok([i \in 1..Len(v.ks) |-> PyStr(<<v.ks[i]>>)])
    [] OTHER -> Raise("TypeError")

(* len(v) *)
PyLen(v) ==
  CASE v.t = "list" -> Ok(Len(v.vs))
    [] v.t \in {"dict", "str"} -> Ok(Len(v.ks))
    [] OTHER -> Raise("TypeError")

(* dict.get(k): the value, or None when the key is absent *)
PyDictGet(d, k) == IF HasKey(d, k) THEN Field(d, k) ELSE PyNone

----------------------------------------------------------------------------
(* Request *)

Request(message, headers, test_elapsed_ms) ==
  [message |-> message, headers |-> headers, test_elapsed_ms |-> test_elapsed_ms]

get_header(req, name) == PyDictGet(req.headers, name)

(* the message and the headers under each other's key *)
Request_to_dict_swapped(req) ==
  PyDict(<<"request", "headers", "test_elapsed_ms">>,
         <<req.headers, req.message, PyInt(req.test_elapsed_ms)>>)

Request_to_dict(req) ==
  PyDict(<<"request", "headers", "test_elapsed_ms">>,
         <<req.message, req.headers, PyInt(req.test_elapsed_ms)>>)

----------------------------------------------------------------------------
(* The traversals of Telemetry.  A list of the Telemetry holds references  *)
(* to Request objects; h is the object store (reference -> Request).       *)

(* the loop over the scopes that ends after its first round *)
LoopScopesFirst(sms, i, out, k3) ==
  IF i > Len(sms) THEN Ok(out)
  ELSE LET leaf == PyGetItem(sms[i], k3) IN
       IF leaf.exc # "" THEN leaf
       ELSE LET cnt == PyLen(leaf.val) IN
            IF cnt.exc # "" THEN cnt
            ELSE Ok(out + cnt.val)

(* for sm in <sms>: out += len(sm[k3]) *)
RECURSIVE LoopScopes(_, _, _, _)
LoopScopes(sms, i, out, k3) ==
  IF i > Len(sms) THEN Ok(out)
  ELSE LET leaf == PyGetItem(sms[i], k3) IN
       IF leaf.exc # "" THEN leaf
       ELSE LET cnt == PyLen(leaf.val) IN
            IF cnt.exc # "" THEN cnt
            ELSE LoopScopes(sms, i + 1, out + cnt.val, k3)

(* for rm in <rms>: for sm in rm[k2]: ... *)
RECURSIVE LoopResources(_, _, _, _, _)
LoopResources(rms, i, out, k2, k3) ==
  IF i > Len(rms) THEN Ok(out)
  ELSE LET scopes == PyGetItem(rms[i], k2) IN
       IF scopes.exc # "" THEN scopes
       ELSE LET it == PyIter(scopes.val) IN
            IF it.exc # "" THEN it
            ELSE LET r == LoopScopes(it.val, 1, out, k3) IN
                 IF r.exc # "" THEN r
                 ELSE LoopResources(rms, i + 1, r.val, k2, k3)

(* for req in <reqs>: for rm in req.message[k1]: ... *)
RECURSIVE LoopRequests(_, _, _, _, _, _, _)
LoopRequests(h, reqs, i, out, k1, k2, k3) ==
  IF i > Len(reqs) THEN Ok(out)
  ELSE LET res == PyGetItem(h[reqs[i]].message, k1) IN
       IF res.exc # "" THEN res
       ELSE LET it == PyIter(res.val) IN
            IF it.exc # "" THEN it
            ELSE LET r == LoopResources(it.val, 1, out, k2, k3) IN
                 IF r.exc # "" THEN r
                 ELSE LoopRequests(h, reqs, i + 1, r.val, k1, k2, k3)

num_metrics(h, reqs) ==
  LoopRequests(h, reqs, 1, 0, "resourceMetrics", "scopeMetrics", "metrics")

num_spans(h, reqs) ==
  LoopRequests(h, reqs, 1, 0, "resourceSpans", "scopeSpans", "spans")

(* for metric in <ms>: out.add(metric["name"]); a set takes no unhashable *)
(* element (dict, list, set)                                              *)
RECURSIVE NamesOfMetrics(_, _, _)
NamesOfMetrics(ms, i, out) ==
  IF i > Len(ms) THEN Ok(out)
  ELSE LET nm == PyGetItem(ms[i], "name") IN
       IF nm.exc # "" THEN nm
       ELSE IF nm.val.t \in {"dict", "list", "set"} THEN Raise("TypeError")
       ELSE NamesOfMetrics(ms, i + 1, out \cup {nm.val})

RECURSIVE NamesOfScopes(_, _, _)
NamesOfScopes(sms, i, out) ==
  IF i > Len(sms) THEN Ok(out)
  ELSE LET leaf == PyGetItem(sms[i], "metrics") IN
       IF leaf.exc # "" THEN leaf
       ELSE LET it == PyIter(leaf.val) IN
            IF it.exc # "" THEN it
            ELSE LET r == NamesOfMetrics(it.val, 1, out) IN
                 IF r.exc # "" THEN r
                 ELSE NamesOfScopes(sms, i + 1, r.val)

RECURSIVE NamesOfResources(_, _, _)
NamesOfResources(rms, i, out) ==
  IF i > Len(rms) THEN Ok(out)
  ELSE LET scopes == PyGetItem(rms[i], "scopeMetrics") IN
       IF scopes.exc # "" THEN scopes
       ELSE LET it == PyIter(scopes.val) IN
            IF it.exc # "" THEN it
            ELSE LET r == NamesOfScopes(it.val, 1, out) IN
                 IF r.exc # "" THEN r
                 ELSE NamesOfResources(rms, i + 1, r.val)

RECURSIVE NamesOfRequests(_, _, _, _)
NamesOfRequests(h, reqs, i, out) ==
  IF i > Len(reqs) THEN Ok(out)
  ELSE LET res == PyGetItem(h[reqs[i]].message, "resourceMetrics") IN
       IF res.exc # "" THEN res
       ELSE LET it == PyIter(res.val) IN
            IF it.exc # "" THEN it
            ELSE LET r == NamesOfResources(it.val, 1, out) IN
                 IF r.exc # "" THEN r
                 ELSE NamesOfRequests(h, reqs, i + 1, r.val)

(* the traversal that starts behind the first Request *)
metric_names_skip(h, reqs) == NamesOfRequests(h, reqs, 2, {})

metric_names(h, reqs) == NamesOfRequests(h, reqs, 1, {})

(* for req in trace_requests: if expected == req.get_header(key): return True *)
RECURSIVE HeaderLoop(_, _, _, _, _)
HeaderLoop(h, reqs, i, key, expected) ==
  IF i > Len(reqs) THEN FALSE
  ELSE LET actual == get_header(h[reqs[i]], key) IN
       IF expected = actual THEN TRUE
       ELSE HeaderLoop(h, reqs, i + 1, key, expected)

has_trace_header(h, reqs, key, expected) == HeaderLoop(h, reqs, 1, key, expected)

(* [req.to_dict() for req in <reqs>] *)
DictsOf(h, reqs) == PyList([i \in 1..Len(reqs) |-> Request_to_dict(h[reqs[i]])])

to_dict(h, logs, metrics, traces) ==
  PyDict(<<"log_requests", "metric_requests", "trace_requests">>,
         <<DictsOf(h, logs), DictsOf(h, metrics), DictsOf(h, traces)>>)

(* An optional list argument of Telemetry.__init__: absent (None) or a     *)
(* list of Request references.                                             *)
NoArg == [given |-> FALSE, items |-> <<>>]

ListArg(items) == [given |-> TRUE, items |-> items]

(* <arg> or []: None and the empty list are both falsy *)
OrEmpty(arg) == IF arg.given /\ Len(arg.items) > 0 THEN arg.items ELSE <<>>

Telemetry_init(log_arg, metric_arg, trace_arg) ==
  [log_requests |-> OrEmpty(log_arg),
   metric_requests |-> OrEmpty(metric_arg),
   trace_requests |-> OrEmpty(trace_arg)]

(* an append that writes over the last element *)
ListOverwrite(l, x) == IF Len(l) > 0 THEN [l EXCEPT ![Len(l)] = x] ELSE <<x>>

(* a list that grows at the wrong end *)
ListPrepend(l, x) == <<x>> \o l

(* list.append(x): one indivisible step of the interpreter *)
ListAppend(l, x) == Append(l, x)

----------------------------------------------------------------------------
(* Payloads, headers and arguments the operations are driven with *)

Metric(name) == PyDict(<<"name">>, <<PyStr(name)>>)

ScopeMetrics(ms) == PyDict(<<"metrics">>, <<PyList(ms)>>)

ResourceMetrics(sms) == PyDict(<<"scopeMetrics">>, <<PyList(sms)>>)

MetricsData(rms) == PyDict(<<"resourceMetrics">>, <<PyList(rms)>>)

Span(name) == PyDict(<<"name">>, <<PyStr(name)>>)

ScopeSpans(ss) == PyDict(<<"spans">>, <<PyList(ss)>>)

ResourceSpans(sss) == PyDict(<<"scopeSpans">>, <<PyList(sss)>>)

TracesData(rss) == PyDict(<<"resourceSpans">>, <<PyList(rss)>>)

EmptyDict == PyDict(<<>>, <<>>)

NameA == <<"a">>

NameB == <<"b">>

(* one metric "a" *)
MetricMsgA == MetricsData(<<ResourceMetrics(<<ScopeMetrics(<<Metric(NameA)>>)>>)>>)

(* two scopes, three metrics, the name "a" twice *)
MetricMsgAB ==
  MetricsData(<<ResourceMetrics(<<ScopeMetrics(<<Metric(NameA), Metric(NameB)>>),
                                  ScopeMetrics(<<Metric(NameA)>>)>>)>>)

(* two resources, one of them without scopes *)
MetricMsgB2 ==
  MetricsData(<<ResourceMetrics(<<>>),
                ResourceMetrics(<<ScopeMetrics(<<>>), ScopeMetrics(<<Metric(NameB)>>)>>)>>)

MetricMsgNone == MetricsData(<<>>)

(* a key is missing: at the message, in a resource, in a scope, in a metric *)
MetricMsgNoResource == EmptyDict

MetricMsgNoScope == MetricsData(<<ResourceMetrics(<<ScopeMetrics(<<Metric(NameA)>>)>>), EmptyDict>>)

MetricMsgNoMetrics == MetricsData(<<ResourceMetrics(<<ScopeMetrics(<<Metric(NameA)>>), EmptyDict>>)>>)

MetricMsgNoName == MetricsData(<<ResourceMetrics(<<ScopeMetrics(<<Metric(NameA), EmptyDict>>)>>)>>)

(* a value of the wrong type: at the message, in a resource, in a scope *)
MetricMsgIsList == PyList(<<>>)

MetricMsgResDict == PyDict(<<"resourceMetrics">>, <<EmptyDict>>)

MetricMsgResStr == PyDict(<<"resourceMetrics">>, <<PyStr(<<"x">>)>>)

MetricMsgScopesDict ==
  MetricsData(<<PyDict(<<"scopeMetrics">>, <<PyDict(<<"metrics">>, <<PyList(<<>>)>>)>>)>>)

MetricMsgLeafStr ==
  MetricsData(<<ResourceMetrics(<<PyDict(<<"metrics">>, <<PyStr(<<"x", "y">>)>>)>>)>>)

MetricMsgLeafDict ==
  MetricsData(<<ResourceMetrics(<<PyDict(<<"metrics">>, <<EmptyDict>>)>>)>>)

MetricMsgLeafInt ==
  MetricsData(<<ResourceMetrics(<<PyDict(<<"metrics">>, <<PyInt(5)>>)>>)>>)

TraceMsg1 == TracesData(<<ResourceSpans(<<ScopeSpans(<<Span(NameA)>>)>>)>>)

TraceMsg3 ==
  TracesData(<<ResourceSpans(<<ScopeSpans(<<Span(NameA), Span(NameB)>>)>>),
               ResourceSpans(<<ScopeSpans(<<Span(NameA)>>)>>)>>)

TraceMsgNone == TracesData(<<>>)

TraceMsgNoSpans == TracesData(<<ResourceSpans(<<EmptyDict>>)>>)

TraceMsgLeafStr ==
  TracesData(<<ResourceSpans(<<PyDict(<<"spans">>, <<PyStr(<<"x">>)>>)>>)>>)

TraceMsgResInt == PyDict(<<"resourceSpans">>, <<PyInt(1)>>)

LogMsg == PyDict(<<"resourceLogs">>, <<PyList(<<>>)>>)

ValueAbc == PyStr(<<"a", "b", "c">>)

ValueXyz == PyStr(<<"x", "y", "z">>)

NoHeaders == EmptyDict

HeadersAbc == PyDict(<<"x-test">>, <<ValueAbc>>)

HeadersXyz == PyDict(<<"x-test">>, <<ValueXyz>>)

HeadersOther == PyDict(<<"other">>, <<ValueAbc>>)

(* the arguments of has_trace_header *)
HeaderKeys == {"x-test", "other"}

ExpectedValues == {ValueAbc, ValueXyz, PyNone}

(* <<message, headers, test_elapsed_ms>> of the add calls of Spec *)
LogInputs == {<<LogMsg, NoHeaders, 0>>, <<LogMsg, HeadersAbc, 1>>}

MetricInputs ==
  {<<MetricMsgA, NoHeaders, 0>>, <<MetricMsgAB, HeadersAbc, 1>>,
   <<MetricMsgNoResource, HeadersOther, 1>>}

TraceInputs ==
  {<<TraceMsg1, NoHeaders, 0>>, <<TraceMsg3, HeadersAbc, 1>>,
   <<TraceMsgNone, HeadersOther, 1>>}

(* the add calls of SpecPayload: every payload shape, one header map *)
PayloadLogInputs == {<<LogMsg, NoHeaders, 0>>}

PayloadMetricInputs ==
  {<<m, NoHeaders, 0>> : m \in
     {MetricMsgA, MetricMsgAB, MetricMsgB2, MetricMsgNone,
      MetricMsgNoResource, MetricMsgNoScope, MetricMsgNoMetrics, MetricMsgNoName,
      MetricMsgIsList, MetricMsgResDict, MetricMsgResStr, MetricMsgScopesDict,
      MetricMsgLeafStr, MetricMsgLeafDict, MetricMsgLeafInt}}

PayloadTraceInputs ==
  {<<m, NoHeaders, 0>> : m \in
     {TraceMsg1, TraceMsg3, TraceMsgNone, TraceMsgNoSpans, TraceMsgLeafStr,
      TraceMsgResInt}}

(* Requests that exist before a Telemetry is constructed from them *)
SeedHeap == <<Request(MetricMsgA, HeadersAbc, 0), Request(TraceMsg1, HeadersXyz, 2)>>

SeedLogArgs == {NoArg, ListArg(<<>>), ListArg(<<1>>)}

SeedMetricArgs == {NoArg, ListArg(<<>>), ListArg(<<1>>)}

SeedTraceArgs == {NoArg, ListArg(<<>>), ListArg(<<2>>)}

(* the Request a caller of get_trace_requests() appends to the result *)
ForeignRequest == Request(TraceMsg3, HeadersAbc, 9)

(* bounds *)
MaxAdds == 2

MaxPayloads == 2

NThreads == 2

MaxTamper == 2

Threads == 1..NThreads

----------------------------------------------------------------------------
(* State *)

VARIABLES
  heap,             \* the Request objects created so far; a reference is an index
  log_requests,     \* Telemetry.log_requests: sequence of references
  metric_requests,  \* Telemetry.metric_requests
  trace_requests,   \* Telemetry.trace_requests
  returned,         \* TRUE once a caller holds the list get_trace_requests() returned
  pc,               \* per receiving thread: "idle", "constructed", "returned"
  pending,          \* per receiving thread: the kind and Request of its add call
  last,             \* the operation that ran last
  args,             \* its arguments (of a query), as Python values
  ret,              \* what it handed to its caller, see Returned
  seed,             \* history: the three lists as __init__ left them
  calls,            \* history: the add calls, in the order they happened
  tamper            \* history: number of changes a caller made to the returned list

vars == <<heap, log_requests, metric_requests, trace_requests, returned, pc,
          pending, last, args, ret, seed, calls, tamper>>

(* What a call hands to its caller: the exception that propagates (exc,  *)
(* "" when there is none), else the returned value (val) and, when that  *)
(* value is a set, its elements (elems).                                 *)
Returned(v) == [exc |-> "", val |-> v, elems |-> {}]

Raised(e) == [exc |-> e, val |-> PyNone, elems |-> {}]

ReturnedInt(o) == IF o.exc # "" THEN Raised(o.exc) ELSE Returned(PyInt(o.val))

ReturnedSet(o) ==
  IF o.exc # "" THEN Raised(o.exc) ELSE [exc |-> "", val |-> PySet, elems |-> o.val]

NoPending == [kind |-> "", ref |-> 0]

Call(kind, ref, message, headers, test_elapsed_ms) ==
  [kind |-> kind, ref |-> ref, message |-> message, headers |-> headers,
   test_elapsed_ms |-> test_elapsed_ms]

(* Telemetry(log_arg, metric_arg, trace_arg) over the Requests of h.  The  *)
(* arguments are three list objects of their own (they may hold the same  *)
(* Request), and the one who passed them does not change them afterwards. *)
Construct(h, log_arg, metric_arg, trace_arg) ==
  LET t == Telemetry_init(log_arg, metric_arg, trace_arg) IN
  /\ heap = h
  /\ log_requests = t.log_requests
  /\ metric_requests = t.metric_requests
  /\ trace_requests = t.trace_requests
  /\ seed = t
  /\ returned = FALSE
  /\ pc = [th \in Threads |-> "idle"]
  /\ pending = [th \in Threads |-> NoPending]
  /\ last = "__init__"
  /\ args = <<>>
  /\ ret = Returned(PyNone)
  /\ calls = <<>>
  /\ tamper = 0

Init ==
  \E la \in SeedLogArgs, ma \in SeedMetricArgs, ta \in SeedTraceArgs :
    Construct(SeedHeap, la, ma, ta)

InitEmpty == Construct(<<>>, NoArg, NoArg, NoArg)

----------------------------------------------------------------------------
(* The operations of Telemetry *)

(* the log lands in the metric list as well *)
add_log_twice(log, headers, test_elapsed_ms) ==
  /\ heap' = Append(heap, Request(log, headers, test_elapsed_ms))
  /\ log_requests' = ListAppend(log_requests, Len(heap) + 1)
  /\ metric_requests' = ListAppend(metric_requests, Len(heap) + 1)
  /\ UNCHANGED trace_requests

add_log(log, headers, test_elapsed_ms) ==
  /\ heap' = Append(heap, Request(log, headers, test_elapsed_ms))
  /\ log_requests' = ListAppend(log_requests, Len(heap) + 1)
  /\ UNCHANGED <<metric_requests, trace_requests>>

add_metric(metric, headers, test_elapsed_ms) ==
  /\ heap' = Append(heap, Request(metric, headers, test_elapsed_ms))
  /\ metric_requests' = ListAppend(metric_requests, Len(heap) + 1)
  /\ UNCHANGED <<log_requests, trace_requests>>

add_trace(trace, headers, test_elapsed_ms) ==
  /\ heap' = Append(heap, Request(trace, headers, test_elapsed_ms))
  /\ trace_requests' = ListAppend(trace_requests, Len(heap) + 1)
  /\ UNCHANGED <<log_requests, metric_requests>>

(* a call of add_log by the (single) receiving path *)
AddLogFrom(inputs, max) ==
  /\ Len(calls) < max
  /\ \E in \in inputs :
       /\ add_log(in[1], in[2], in[3])
       /\ calls' = Append(calls, Call("log", Len(heap) + 1, in[1], in[2], in[3]))
  /\ last' = "add_log"
  /\ args' = <<>>
  /\ ret' = Returned(PyNone)
  /\ UNCHANGED <<returned, pc, pending, seed, tamper>>

AddMetricFrom(inputs, max) ==
  /\ Len(calls) < max
  /\ \E in \in inputs :
       /\ add_metric(in[1], in[2], in[3])
       /\ calls' = Append(calls, Call("metric", Len(heap) + 1, in[1], in[2], in[3]))
  /\ last' = "add_metric"
  /\ args' = <<>>
  /\ ret' = Returned(PyNone)
  /\ UNCHANGED <<returned, pc, pending, seed, tamper>>

AddTraceFrom(inputs, max) ==
  /\ Len(calls) < max
  /\ \E in \in inputs :
       /\ add_trace(in[1], in[2], in[3])
       /\ calls' = Append(calls, Call("trace", Len(heap) + 1, in[1], in[2], in[3]))
  /\ last' = "add_trace"
  /\ args' = <<>>
  /\ ret' = Returned(PyNone)
  /\ UNCHANGED <<returned, pc, pending, seed, tamper>>

AddLog == AddLogFrom(LogInputs, MaxAdds)

AddMetric == AddMetricFrom(MetricInputs, MaxAdds)

AddTrace == AddTraceFrom(TraceInputs, MaxAdds)

(* get_trace_requests(): the caller receives self.trace_requests itself, *)
(* not a copy                                                            *)
get_trace_requests ==
  /\ returned' = TRUE
  /\ UNCHANGED <<heap, log_requests, metric_requests, trace_requests>>

GetTraceRequests ==
  /\ get_trace_requests
  /\ last' = "get_trace_requests"
  /\ args' = <<>>
  /\ ret' = Returned(PyStr(<<"self.trace_requests">>))
  /\ UNCHANGED <<pc, pending, seed, calls, tamper>>

(* the queries: each leaves the Telemetry alone and hands its outcome (a *)
(* value or a propagating exception) to the caller                      *)
Returns(op, arguments, outcome) ==
  /\ last' = op
  /\ args' = arguments
  /\ ret' = outcome
  /\ UNCHANGED <<heap, log_requests, metric_requests, trace_requests, returned,
                 pc, pending, seed, calls, tamper>>

NumMetrics ==
  Returns("num_metrics", <<>>, ReturnedInt(num_metrics(heap, metric_requests)))

MetricNames ==
  Returns("metric_names", <<>>, ReturnedSet(metric_names(heap, metric_requests)))

NumSpans ==
  Returns("num_spans", <<>>, ReturnedInt(num_spans(heap, trace_requests)))

HasTraceHeader ==
  \E key \in HeaderKeys, expected \in ExpectedValues :
    Returns("has_trace_header", <<PyStr(<<key>>), expected>>,
            Returned(PyBool(has_trace_header(heap, trace_requests, key, expected))))

ToDict ==
  Returns("to_dict", <<>>,
          Returned(to_dict(heap, log_requests, metric_requests, trace_requests)))

Next ==
  \/ AddLog
  \/ AddMetric
  \/ AddTrace
  \/ GetTraceRequests
  \/ NumMetrics
  \/ MetricNames
  \/ NumSpans
  \/ HasTraceHeader
  \/ ToDict

Spec == Init /\ [][Next]_vars

----------------------------------------------------------------------------
(* The same operations driven with every payload shape *)

PayloadAddLog == AddLogFrom(PayloadLogInputs, MaxPayloads)

PayloadAddMetric == AddMetricFrom(PayloadMetricInputs, MaxPayloads)

PayloadAddTrace == AddTraceFrom(PayloadTraceInputs, MaxPayloads)

NextPayload ==
  \/ PayloadAddLog
  \/ PayloadAddMetric
  \/ PayloadAddTrace
  \/ NumMetrics
  \/ MetricNames
  \/ NumSpans

SpecPayload == InitEmpty /\ [][NextPayload]_vars

----------------------------------------------------------------------------
(* Concurrent receivers: each thread makes one add call.  The call first   *)
(* evaluates Request(...), then runs list.append, and another thread may   *)
(* run between the two; list.append itself is one step of the interpreter. *)

ListOf(kind) ==
  CASE kind = "log" -> log_requests
    [] kind = "metric" -> metric_requests
    [] kind = "trace" -> trace_requests

InputsOf(kind) ==
  CASE kind = "log" -> LogInputs
    [] kind = "metric" -> MetricInputs
    [] kind = "trace" -> TraceInputs

ThreadConstruct(th) ==
  /\ pc[th] = "idle"
  /\ \E kind \in {"log", "metric", "trace"} :
       \E in \in InputsOf(kind) :
         /\ heap' = Append(heap, Request(in[1], in[2], in[3]))
         /\ pending' = [pending EXCEPT ![th] = [kind |-> kind, ref |-> Len(heap) + 1]]
         /\ calls' = Append(calls, Call(kind, Len(heap) + 1, in[1], in[2], in[3]))
  /\ pc' = [pc EXCEPT ![th] = "constructed"]
  /\ UNCHANGED <<log_requests, metric_requests, trace_requests, returned, last,
                 args, ret, seed, tamper>>

ThreadAppend(th) ==
  /\ pc[th] = "constructed"
  /\ LET kind == pending[th].kind
         grown == ListAppend(ListOf(kind), pending[th].ref)
     IN /\ log_requests' = IF kind = "log" THEN grown ELSE log_requests
        /\ metric_requests' = IF kind = "metric" THEN grown ELSE metric_requests
        /\ trace_requests' = IF kind = "trace" THEN grown ELSE trace_requests
        /\ last' = "add_" \o kind
  /\ pc' = [pc EXCEPT ![th] = "returned"]
  /\ args' = <<>>
  /\ ret' = Returned(PyNone)
  /\ UNCHANGED <<heap, returned, pending, seed, calls, tamper>>

Construct1 == \E th \in Threads : ThreadConstruct(th)

Append1 == \E th \in Threads : ThreadAppend(th)

NextThreads ==
  \/ Construct1
  \/ Append1

SpecThreads == InitEmpty /\ [][NextThreads]_vars

----------------------------------------------------------------------------
(* A caller that keeps the list get_trace_requests() returned and changes  *)
(* it: the list is the Telemetry's own trace_requests object.              *)

Reverse(l) == [i \in 1..Len(l) |-> l[Len(l) + 1 - i]]

Tampers(op) ==
  /\ returned
  /\ tamper < MaxTamper
  /\ tamper' = tamper + 1
  /\ last' = op
  /\ args' = <<>>
  /\ ret' = Returned(PyNone)
  /\ UNCHANGED <<log_requests, metric_requests, returned, pc, pending, seed, calls>>

CallerAppend ==
  /\ Tampers("caller.append")
  /\ heap' = Append(heap, ForeignRequest)
  /\ trace_requests' = ListAppend(trace_requests, Len(heap) + 1)

CallerPop ==
  /\ Tampers("caller.pop")
  /\ Len(trace_requests) > 0
  /\ trace_requests' = SubSeq(trace_requests, 1, Len(trace_requests) - 1)
  /\ UNCHANGED heap

CallerReverse ==
  /\ Tampers("caller.reverse")
  /\ trace_requests' = Reverse(trace_requests)
  /\ UNCHANGED heap

NextCaller ==
  \/ AddTrace
  \/ GetTraceRequests
  \/ NumSpans
  \/ HasTraceHeader
  \/ CallerAppend
  \/ CallerPop
  \/ CallerReverse

SpecCaller == Init /\ [][NextCaller]_vars

----------------------------------------------------------------------------
(* Vocabulary of the properties *)

(* the Requests a list of references denotes *)
ValuesOf(h, refs) == [i \in 1..Len(refs) |-> h[refs[i]]]

IsPrefix(s, t) == Len(s) <= Len(t) /\ SubSeq(t, 1, Len(s)) = s

(* what the add calls of one kind handed over, in the order of the calls *)
Handed(kind) ==
  LET cs == SelectSeq(calls, LAMBDA c : c.kind = kind) IN
  [i \in 1..Len(cs) |->
     [message |-> cs[i].message, headers |-> cs[i].headers,
      test_elapsed_ms |-> cs[i].test_elapsed_ms]]

(* the references the add calls of one kind created, in the order of the calls *)
CreatedBy(kind) ==
  LET cs == SelectSeq(calls, LAMBDA c : c.kind = kind) IN
  [i \in 1..Len(cs) |-> cs[i].ref]

Refs(refs) == {refs[i] : i \in 1..Len(refs)}

(* m follows the schema k1[] . k2[] . k3[] *)
ConformsTo(m, k1, k2, k3) ==
  /\ m.t = "dict" /\ HasKey(m, k1) /\ Field(m, k1).t = "list"
  /\ \A i \in 1..Len(Field(m, k1).vs) :
       LET rm == Field(m, k1).vs[i] IN
       /\ rm.t = "dict" /\ HasKey(rm, k2) /\ Field(rm, k2).t = "list"
       /\ \A j \in 1..Len(Field(rm, k2).vs) :
            LET sm == Field(rm, k2).vs[j] IN
            sm.t = "dict" /\ HasKey(sm, k3) /\ Field(sm, k3).t = "list"

(* the positions <<i, j, k>> of the innermost entries of a conforming m *)
LeafPositions(m, k1, k2, k3) ==
  UNION {UNION {{<<i, j, k>> : k \in 1..Len(Field(Field(Field(m, k1).vs[i], k2).vs[j], k3).vs)} :
                j \in 1..Len(Field(Field(m, k1).vs[i], k2).vs)} :
         i \in 1..Len(Field(m, k1).vs)}

LeafAt(m, k1, k2, k3, p) == Field(Field(Field(m, k1).vs[p[1]], k2).vs[p[2]], k3).vs[p[3]]

MetricConforms(m) == ConformsTo(m, "resourceMetrics", "scopeMetrics", "metrics")

TraceConforms(m) == ConformsTo(m, "resourceSpans", "scopeSpans", "spans")

MetricLeaves(m) == LeafPositions(m, "resourceMetrics", "scopeMetrics", "metrics")

MetricAt(m, p) == LeafAt(m, "resourceMetrics", "scopeMetrics", "metrics", p)

NamedMetrics(m) ==
  /\ MetricConforms(m)
  /\ \A p \in MetricLeaves(m) :
       MetricAt(m, p).t = "dict" /\ HasKey(MetricAt(m, p), "name")
         /\ Field(MetricAt(m, p), "name").t = "str"

MetricMessages == [i \in 1..Len(metric_requests) |-> heap[metric_requests[i]].message]

TraceMessages == [i \in 1..Len(trace_requests) |-> heap[trace_requests[i]].message]

AllMetricsConform == \A i \in 1..Len(MetricMessages) : MetricConforms(MetricMessages[i])

AllMetricsNamed == \A i \in 1..Len(MetricMessages) : NamedMetrics(MetricMessages[i])

AllTracesConform == \A i \in 1..Len(TraceMessages) : TraceConforms(TraceMessages[i])

(* the innermost entries of all messages of a list: <<request, i, j, k>> *)
AllLeaves(msgs, k1, k2, k3) ==
  UNION {{<<r>> \o p : p \in LeafPositions(msgs[r], k1, k2, k3)} : r \in 1..Len(msgs)}

AllMetricLeaves == AllLeaves(MetricMessages, "resourceMetrics", "scopeMetrics", "metrics")

AllSpanLeaves == AllLeaves(TraceMessages, "resourceSpans", "scopeSpans", "spans")

----------------------------------------------------------------------------
(* C1: after any sequence of add calls each of the three sequences holds   *)
(* exactly the Requests the Telemetry was constructed with followed by the *)
(* records added for its signal kind, in the order of the add calls; every *)
(* step leaves the earlier state of each sequence as a prefix of the later *)
(* one.                                                                    *)
C1_Held ==
  /\ ValuesOf(heap, log_requests) = ValuesOf(heap, seed.log_requests) \o Handed("log")
  /\ ValuesOf(heap, metric_requests) = ValuesOf(heap, seed.metric_requests) \o Handed("metric")
  /\ ValuesOf(heap, trace_requests) = ValuesOf(heap, seed.trace_requests) \o Handed("trace")

C1_Extends ==
  /\ IsPrefix(ValuesOf(heap, log_requests), ValuesOf(heap', log_requests'))
  /\ IsPrefix(ValuesOf(heap, metric_requests), ValuesOf(heap', metric_requests'))
  /\ IsPrefix(ValuesOf(heap, trace_requests), ValuesOf(heap', trace_requests'))

C3_NoSharedRequest ==
  /\ Refs(log_requests) \cap Refs(metric_requests) = {}
  /\ Refs(log_requests) \cap Refs(trace_requests) = {}
  /\ Refs(metric_requests) \cap Refs(trace_requests) = {}

(* C4: has_trace_header(key, expected) returns True if and only if some    *)
(* trace Request's headers contain key mapped to exactly expected.         *)
C4_HeaderIff ==
  last = "has_trace_header" =>
    (ret.val = PyBool(TRUE) <=>
       \E i \in 1..Len(trace_requests) :
         LET hd == heap[trace_requests[i]].headers
             key == args[1].ks[1]
         IN HasKey(hd, key) /\ Field(hd, key) = args[2])

(* C8: a Telemetry rebuilt from to_dict() of a schema-conforming Telemetry *)
(* reports the same num_metrics(), num_spans() and metric_names(), and its *)
(* to_dict() is the same.                                                  *)
RequestsOf(entries) ==
  [i \in 1..Len(entries.vs) |->
     Request(Field(entries.vs[i], "request"), Field(entries.vs[i], "headers"),
             Field(entries.vs[i], "test_elapsed_ms").n)]

Rebuilt(d) ==
  LET logs == RequestsOf(Field(d, "log_requests"))
      metrics == RequestsOf(Field(d, "metric_requests"))
      traces == RequestsOf(Field(d, "trace_requests"))
      t == Telemetry_init(
             ListArg([i \in 1..Len(logs) |-> i]),
             ListArg([i \in 1..Len(metrics) |-> Len(logs) + i]),
             ListArg([i \in 1..Len(traces) |-> Len(logs) + Len(metrics) + i]))
  IN [heap |-> logs \o metrics \o traces,
      log_requests |-> t.log_requests,
      metric_requests |-> t.metric_requests,
      trace_requests |-> t.trace_requests]

C8_RoundTrip ==
  (last = "to_dict" /\ AllMetricsNamed /\ AllTracesConform) =>
    LET t2 == Rebuilt(ret.val) IN
    /\ num_metrics(t2.heap, t2.metric_requests) = num_metrics(heap, metric_requests)
    /\ num_spans(t2.heap, t2.trace_requests) = num_spans(heap, trace_requests)
    /\ metric_names(t2.heap, t2.metric_requests) = metric_names(heap, metric_requests)
    /\ to_dict(t2.heap, t2.log_requests, t2.metric_requests, t2.trace_requests) = ret.val

(* to_dict() of a Telemetry with logs, several metrics and several spans *)
C8_Witness ==
  /\ last = "to_dict"
  /\ AllMetricsNamed /\ AllTracesConform
  /\ Len(log_requests) > 0
  /\ Cardinality(AllMetricLeaves) >= 2
  /\ Cardinality(AllSpanLeaves) >= 2

(* C10: an add call makes the sequence of its kind one longer, the new     *)
(* last element carrying the message, headers and test_elapsed_ms of the   *)
(* call, and leaves the other two sequences and all earlier elements as    *)
(* they were; a query leaves all three sequences unchanged.                *)
AddedTo(before, after, kind) ==
  /\ Len(calls') = Len(calls) + 1
  /\ Len(after) = Len(before) + 1
  /\ SubSeq(after, 1, Len(before)) = before
  /\ LET c == calls'[Len(calls')]
         r == after[Len(after)]
     IN /\ c.kind = kind
        /\ r.message = c.message
        /\ r.headers = c.headers
        /\ r.test_elapsed_ms = c.test_elapsed_ms

C10_Effect ==
  LET logs == ValuesOf(heap, log_requests)
      metrics == ValuesOf(heap, metric_requests)
      traces == ValuesOf(heap, trace_requests)
      logs2 == ValuesOf(heap', log_requests')
      metrics2 == ValuesOf(heap', metric_requests')
      traces2 == ValuesOf(heap', trace_requests')
  IN /\ last' = "add_log" =>
          AddedTo(logs, logs2, "log") /\ metrics2 = metrics /\ traces2 = traces
     /\ last' = "add_metric" =>
          AddedTo(metrics, metrics2, "metric") /\ logs2 = logs /\ traces2 = traces
     /\ last' = "add_trace" =>
          AddedTo(traces, traces2, "trace") /\ logs2 = logs /\ metrics2 = metrics
     /\ last' \notin {"add_log", "add_metric", "add_trace"} =>
          logs2 = logs /\ metrics2 = metrics /\ traces2 = traces

Occurrences(refs, ref) == Cardinality({i \in 1..Len(refs) : refs[i] = ref})

AllReturned == \A th \in Threads : pc[th] = "returned"

C2_NoLostAppend ==
  AllReturned =>
    /\ Len(log_requests) + Len(metric_requests) + Len(trace_requests) = Len(calls)
    /\ Len(calls) = NThreads
    /\ \A i \in 1..Len(calls) :
         /\ \A kind \in {"log", "metric", "trace"} :
              Occurrences(ListOf(kind), calls[i].ref) = IF kind = calls[i].kind THEN 1 ELSE 0
         /\ heap[calls[i].ref].message = calls[i].message
         /\ heap[calls[i].ref].headers = calls[i].headers
         /\ heap[calls[i].ref].test_elapsed_ms = calls[i].test_elapsed_ms

(* two calls of one kind overlapped: the Request constructed first was *)
(* appended second                                                      *)
C2_Witness ==
  /\ AllReturned
  /\ \E kind \in {"log", "metric", "trace"} :
       \E i \in 1..Len(ListOf(kind)) :
         \E j \in 1..Len(ListOf(kind)) : i < j /\ ListOf(kind)[i] > ListOf(kind)[j]

(* C5: for schema-conforming messages num_metrics() is the number of       *)
(* innermost metrics entries over all metric Requests, and num_spans() the *)
(* number of innermost spans entries over all trace Requests.              *)
C5_Counts ==
  /\ (last = "num_metrics" /\ AllMetricsConform) =>
       ret.exc = "" /\ ret.val = PyInt(Cardinality(AllMetricLeaves))
  /\ (last = "num_spans" /\ AllTracesConform) =>
       ret.exc = "" /\ ret.val = PyInt(Cardinality(AllSpanLeaves))

(* num_metrics() over two conforming Requests with several scopes *)
C5_Witness ==
  /\ last = "num_metrics"
  /\ AllMetricsConform
  /\ Len(metric_requests) = 2
  /\ ret.exc = "" /\ ret.val.n >= 4

(* C6: a message that does not follow the schema (a missing key or a value *)
(* of the wrong type at any level) makes num_metrics(), metric_names() and *)
(* num_spans() end in an exception.                                        *)
C6_MalformedRaises ==
  /\ (last \in {"num_metrics", "metric_names"} /\ ~AllMetricsConform) => ret.exc # ""
  /\ (last = "num_spans" /\ ~AllTracesConform) => ret.exc # ""

(* C7: for schema-conforming messages metric_names() is exactly the set of *)
(* the name fields of all metrics entries, each name once, so it has at    *)
(* most num_metrics() elements.                                            *)
C7_Names ==
  (last = "metric_names" /\ AllMetricsNamed) =>
    /\ ret.exc = ""
    /\ ret.val = PySet
    /\ ret.elems = {Field(MetricAt(MetricMessages[p[1]], <<p[2], p[3], p[4]>>), "name") :
                      p \in AllMetricLeaves}
    /\ Cardinality(ret.elems) <= num_metrics(heap, metric_requests).val

(* metric_names() where one name occurs in both Requests *)
C7_Witness ==
  /\ last = "metric_names"
  /\ AllMetricsNamed
  /\ Len(metric_requests) = 2
  /\ ret.exc = ""
  /\ Cardinality(ret.elems) = 2
  /\ Cardinality(AllMetricLeaves) >= 4

(* C9: whatever a caller does with the list get_trace_requests() returned, *)
(* a later get_trace_requests(), num_spans() or has_trace_header() sees    *)
(* exactly the Requests the Telemetry was constructed with and those added *)
(* through add_trace.                                                      *)
C9_ReadOnlyView ==
  last \in {"get_trace_requests", "num_spans", "has_trace_header"} =>
    trace_requests = seed.trace_requests \o CreatedBy("trace")

====
